---------------------------- MODULE Spec2Model ----------------------------
(***************************************************************************)
(* A model of Discord-Webhook-RSS: the URL shortener (url_shortener.py)   *)
(* and the RSS-to-Discord delivery pipeline (rss_discord_bot.py).          *)
(*                                                                         *)
(*   SpecShortener  URLShortener used by its two threads: the poller's    *)
(*                  main thread and the HTTP server thread.                *)
(*   SpecSplit      RSSDiscordBot._split_message applied to a text.        *)
(*   Spec           RSSDiscordBot: polling cycles (check_and_send,         *)
(*                  process_new_items, send_to_discord) and restarts.      *)
(***************************************************************************)
EXTENDS Integers, Sequences, FiniteSets, TLC

None == "None"

(***************************************************************************)
(* Bounds of the model.                                                    *)
(***************************************************************************)
NumCodes == 2
NumURLs == 2
\* The longest text given to _split_message, in tokens (see Alphabet).
MaxTokens == 3
\* The largest max_retries a configuration of the model sets.
MaxRetries == 3
\* The most entries a fetched feed holds.
MaxFeed == 2

CodeNames == <<"aaaa", "aaab", "aaac", "aaad", "aaae", "aaaf">>
UrlNames == <<"http://u1", "http://u2", "http://u3", "http://u4">>

\* generate_short_code draws from 62^4 codes; the model draws from these.
Codes == {CodeNames[i] : i \in 1..NumCodes}
\* The long URLs the callers pass to shorten_url.
URLs == {UrlNames[i] : i \in 1..NumURLs}

\* The threads that use the URLShortener: the main thread (the poller,
\* through _shorten_urls_in_text) and the HTTPServer's serve_forever thread.
Threads == {"poller", "server"}

VARIABLES
    \* ---- URLShortener ----
    url_mappings,       \* self.url_mappings: code -> long URL
    reverse_mappings,   \* self.reverse_mappings: long URL -> code
    map_file,           \* url_mappings.json: [kind, map]
    lock,               \* self.lock: the holder, or None
    spc,                \* each thread's position in shorten_url
    long_url,           \* each thread's argument of shorten_url
    short_code,         \* each thread's local short_code
    sret,               \* each thread's last return value of shorten_url
    returned,           \* history: every <<url, code>> shorten_url returned
    saw_unmapped,       \* history: the URL was unmapped when the call began
    overlapped,         \* history: the call ran while the other thread's did
    dirty,              \* history: the last save_mappings failed
    stale_read,         \* history: the code get_long_url last found in
                        \* memory while the file lacked it, or None
    request,            \* the HTTP request the server thread handles, or
                        \* handled last; NoRequest before the first
    response,           \* the response sent to it; NoResponse until then
    \* ---- _split_message ----
    content,            \* the text given to _split_message
    messages,           \* the list it returned
    split_pc,           \* "input" before the call, "done" after
    html_content,       \* the HTML given to _extract_media_urls
    extracted_urls,     \* the list it returned
    media_pc,           \* "input" before the call, "done" after
    \* ---- RSSDiscordBot ----
    max_retries,        \* config['max_retries']
    webhook_url,        \* config['discord_webhook_url']
    sent_items,         \* self.sent_items
    sent_file,          \* sent_items.json: [kind, items]
    pc,                 \* the main thread's position
    fetched,            \* what the last fetch_rss_feed returned
    items,              \* process_new_items: the entries being processed
    idx,                \* the position of `item` in items
    message_parts,      \* send_to_discord: the chunks of the message
    attempt,            \* the attempt loop's counter
    success,            \* the attempt loop's flag
    new_items_count,    \* process_new_items' counter
    part,               \* send_to_discord: the chunk being posted (i + 1)
    all_success,        \* send_to_discord's flag
    send_result,        \* what send_to_discord returned
    media_urls,         \* send_to_discord: message_data['media_urls']
    dl,                 \* send_to_discord: the media URL being fetched (i + 1)
    files,              \* send_to_discord: the attachments prepared
    posts,              \* history: the requests.post calls of the running
                        \* send_to_discord call and what each did
    got,                \* history: the media URLs (by position) whose
                        \* download answered 200 in the running call
    calls,              \* history: the send_to_discord calls made for the
                        \* current entry
    handled,            \* history: what became of each entry of the last
                        \* cycle, as <<identifier, outcome>>
    posted,             \* history: identifiers posted to the webhook in
                        \* the last cycle
    delays,             \* history: the backoff sleeps of the current entry
    loaded,             \* history: the identifiers loaded at startup
    delivered,          \* history: identifiers whose delivery returned True
    filtered_ids,       \* history: identifiers of entries that were filtered
    exhausted,          \* history: identifiers whose last attempt loop failed
    added,              \* history: the last cycle added to sent_items
    write_failed,       \* history: a _save_sent_items write has failed
    accepted_before,    \* history: the chunks of the current entry that the
                        \* webhook accepted in an earlier send_to_discord
                        \* call in which a later chunk failed
    pause               \* history: the seconds slept (time.sleep) since the
                        \* last requests.post of the running cycle

\* The server thread's request and response.
httpVars == <<request, response>>

shortenerVars == <<url_mappings, reverse_mappings, map_file, lock, spc,
                   long_url, short_code, sret, returned, saw_unmapped,
                   overlapped, dirty, stale_read, httpVars>>

splitVars == <<content, messages, split_pc>>

mediaVars == <<html_content, extracted_urls, media_pc>>

pollerVars == <<max_retries, webhook_url, sent_items, sent_file, pc, fetched,
                items, idx, message_parts, attempt, success, new_items_count,
                part, all_success, send_result, media_urls, dl, files, posts,
                got, calls, handled, posted, delays, loaded, delivered,
                filtered_ids, exhausted, added, write_failed,
                accepted_before, pause>>

vars == <<shortenerVars, splitVars, mediaVars, pollerVars>>

(***************************************************************************)
(* URLShortener                                                            *)
(***************************************************************************)

\* A JSON file holding mapping m.
JsonFile(m) == [kind |-> "json", map |-> m]
\* A file that is absent, or that json.load rejects.
BadFile(k) == [kind |-> k, map |-> <<>>]

\* load_mappings: the file's mapping, {} when absent or unreadable.
load_mappings(f) == IF f.kind = "json" THEN f.map ELSE <<>>

\* The reverse dictionary __init__ builds from the loaded mapping.
ReverseOf(m) ==
    [u \in {m[c] : c \in DOMAIN m} |-> CHOOSE c \in DOMAIN m : m[c] = u]

\* get_long_url: dict.get, None for an unknown code.
get_long_url(c) == IF c \in DOMAIN url_mappings THEN url_mappings[c] ELSE None

\* The mappings a mapping file written by earlier runs can hold: shorten_url
\* never gives one URL two codes, so they are injective. Codes and URLs are
\* interchangeable, so one stored pair stands for any.
StoredMappings ==
    {<<>>, CodeNames[1] :> UrlNames[1]}

\* URLShortener.__init__ on mapping file f.
ShortenerInit(f) ==
    /\ map_file = f
    /\ url_mappings = load_mappings(f)
    /\ reverse_mappings = ReverseOf(load_mappings(f))
    /\ lock = None
    /\ spc = [t \in Threads |-> "idle"]
    /\ long_url = [t \in Threads |-> None]
    /\ short_code = [t \in Threads |-> None]
    /\ sret = [t \in Threads |-> None]
    /\ returned = {}
    /\ saw_unmapped = [t \in Threads |-> FALSE]
    /\ overlapped = [t \in Threads |-> FALSE]
    /\ dirty = FALSE
    /\ stale_read = None
    /\ request = [method |-> "none"]
    /\ response = [status |-> 0, location |-> None, short_code |-> None]

\* `with self.lock:` lets a thread in only when no thread holds the lock.
LockFreeBroken == TRUE
LockFree == lock = None

\* `if long_url in self.reverse_mappings`
AlreadyMappedNever(u) == FALSE
AlreadyMapped(u) == u \in DOMAIN reverse_mappings

\* generate_short_code: the codes its loop can return, those not yet a key
\* of url_mappings (it loops for ever when there is none).
FreshCodesUnchecked == Codes
FreshCodes == Codes \ DOMAIN url_mappings

\* What save_mappings leaves in the file: the whole mapping, or, when open()
\* or json.dump raises (the exception is logged and swallowed), the old file
\* or a truncated one.
WriteOutcomeStale(outcome, old, m) == old
WriteOutcome(outcome, old, m) ==
    CASE outcome = "ok" -> JsonFile(m)
      [] outcome = "open_failed" -> old
      [] outcome = "write_failed" -> BadFile("corrupt")

SaveOutcomes == {"ok", "open_failed", "write_failed"}

\* Whether code c of the in-memory mapping is in the mapping file.
InFile(c) ==
    /\ map_file.kind = "json"
    /\ c \in DOMAIN map_file.map
    /\ map_file.map[c] = url_mappings[c]

\* A thread calls shorten_url(u) and reaches `with self.lock`.
BeginShorten(t, u) ==
    /\ spc[t] = "idle"
    /\ spc' = [spc EXCEPT ![t] = "acquire"]
    /\ long_url' = [long_url EXCEPT ![t] = u]
    /\ sret' = [sret EXCEPT ![t] = None]
    /\ saw_unmapped' = [saw_unmapped EXCEPT ![t] = u \notin DOMAIN reverse_mappings]
    /\ overlapped' = [o \in Threads |->
                        IF o = t
                        THEN \E x \in Threads \ {t} : spc[x] # "idle"
                        ELSE overlapped[o] \/ spc[o] # "idle"]
    /\ UNCHANGED <<url_mappings, reverse_mappings, map_file, lock, short_code,
                   returned, dirty, stale_read>>
    /\ UNCHANGED <<splitVars, mediaVars, pollerVars>>

\* shorten_url(u) called by thread t: by _shorten_urls_in_text in the main
\* thread, by do_POST in the server thread.
ShortenCall(t, u) ==
    /\ BeginShorten(t, u)
    /\ UNCHANGED httpVars

\* The lock is acquired.
ShortenAcquire(t) ==
    /\ spc[t] = "acquire"
    /\ LockFree
    /\ lock' = t
    /\ spc' = [spc EXCEPT ![t] = "check"]
    /\ UNCHANGED <<url_mappings, reverse_mappings, map_file, long_url,
                   short_code, sret, returned, saw_unmapped, overlapped,
                   dirty, stale_read>>
    /\ UNCHANGED httpVars
    /\ UNCHANGED <<splitVars, mediaVars, pollerVars>>

\* The URL has a code already: return it, leaving the `with` block.
ShortenExisting(t) ==
    /\ spc[t] = "check"
    /\ AlreadyMapped(long_url[t])
    /\ sret' = [sret EXCEPT ![t] = reverse_mappings[long_url[t]]]
    /\ returned' = returned \cup {<<long_url[t], reverse_mappings[long_url[t]]>>}
    /\ lock' = None
    /\ spc' = [spc EXCEPT ![t] = "idle"]
    /\ UNCHANGED <<url_mappings, reverse_mappings, map_file, long_url,
                   short_code, saw_unmapped, overlapped, dirty, stale_read>>
    /\ UNCHANGED httpVars
    /\ UNCHANGED <<splitVars, mediaVars, pollerVars>>

\* short_code = self.generate_short_code()
ShortenGenerate(t) ==
    /\ spc[t] = "check"
    /\ ~AlreadyMapped(long_url[t])
    /\ \E c \in FreshCodes : short_code' = [short_code EXCEPT ![t] = c]
    /\ spc' = [spc EXCEPT ![t] = "insert_fwd"]
    /\ UNCHANGED <<url_mappings, reverse_mappings, map_file, lock, long_url,
                   sret, returned, saw_unmapped, overlapped, dirty, stale_read>>
    /\ UNCHANGED httpVars
    /\ UNCHANGED <<splitVars, mediaVars, pollerVars>>

\* self.url_mappings[short_code] = long_url
ShortenInsertFwd(t) ==
    /\ spc[t] = "insert_fwd"
    /\ url_mappings' = (short_code[t] :> long_url[t]) @@ url_mappings
    /\ spc' = [spc EXCEPT ![t] = "insert_rev"]
    /\ UNCHANGED <<reverse_mappings, map_file, lock, long_url, short_code,
                   sret, returned, saw_unmapped, overlapped, dirty, stale_read>>
    /\ UNCHANGED httpVars
    /\ UNCHANGED <<splitVars, mediaVars, pollerVars>>

\* self.reverse_mappings[long_url] = short_code
ShortenInsertRev(t) ==
    /\ spc[t] = "insert_rev"
    /\ reverse_mappings' = (long_url[t] :> short_code[t]) @@ reverse_mappings
    /\ spc' = [spc EXCEPT ![t] = "save"]
    /\ UNCHANGED <<url_mappings, map_file, lock, long_url, short_code, sret,
                   returned, saw_unmapped, overlapped, dirty, stale_read>>
    /\ UNCHANGED httpVars
    /\ UNCHANGED <<splitVars, mediaVars, pollerVars>>

\* self.save_mappings()
ShortenSave(t) ==
    /\ spc[t] = "save"
    /\ \E outcome \in SaveOutcomes :
         /\ map_file' = WriteOutcome(outcome, map_file, url_mappings)
         /\ dirty' = (outcome # "ok")
    /\ spc' = [spc EXCEPT ![t] = "return"]
    /\ UNCHANGED <<url_mappings, reverse_mappings, lock, long_url, short_code,
                   sret, returned, saw_unmapped, overlapped, stale_read>>
    /\ UNCHANGED httpVars
    /\ UNCHANGED <<splitVars, mediaVars, pollerVars>>

\* return short_code, leaving the `with` block.
ShortenReturn(t) ==
    /\ spc[t] = "return"
    /\ sret' = [sret EXCEPT ![t] = short_code[t]]
    /\ returned' = returned \cup {<<long_url[t], short_code[t]>>}
    /\ lock' = None
    /\ spc' = [spc EXCEPT ![t] = "idle"]
    /\ UNCHANGED <<url_mappings, reverse_mappings, map_file, long_url,
                   short_code, saw_unmapped, overlapped, dirty, stale_read>>
    /\ UNCHANGED httpVars
    /\ UNCHANGED <<splitVars, mediaVars, pollerVars>>

\* The server thread answers GET /<c>: get_long_url(c), which takes no lock.
Resolve(c) ==
    /\ spc["server"] = "idle"
    /\ stale_read' = IF get_long_url(c) # None /\ ~InFile(c) THEN c ELSE None
    /\ UNCHANGED <<url_mappings, reverse_mappings, map_file, lock, spc,
                   long_url, short_code, sret, returned, saw_unmapped,
                   overlapped, dirty>>
    /\ UNCHANGED httpVars
    /\ UNCHANGED <<splitVars, mediaVars, pollerVars>>


(***************************************************************************)
(* ShortenerHandler: the requests the server thread handles, one at a time *)
(***************************************************************************)

\* A code no mapping holds.
UnknownCode == "zzzz"

\* Request paths, cut at the characters do_GET strips ('/' and ')'): the
\* root, the path of a code, and paths with such characters after the code.
Paths ==
    {<<"/">>, <<"/", ")">>}
    \cup {<<"/", c>> : c \in Codes \cup {UnknownCode}}
    \cup {<<"/", c, "/">> : c \in Codes}
    \cup {<<"/", c, ")">> : c \in Codes}

\* s.strip('/)')
RECURSIVE StripLeft(_, _)
StripLeft(s, chars) ==
    IF s # <<>> /\ Head(s) \in chars THEN StripLeft(Tail(s), chars) ELSE s

RECURSIVE StripRight(_, _)
StripRight(s, chars) ==
    IF s # <<>> /\ s[Len(s)] \in chars
    THEN StripRight(SubSeq(s, 1, Len(s) - 1), chars)
    ELSE s

StripPath(s) == StripRight(StripLeft(s, {"/", ")"}), {"/", ")"})

\* The string a stripped path of the model is: its one piece, '' when none
\* is left.
PathString(s) == IF s = <<>> THEN "" ELSE s[1]

\* The bodies of POST requests, by what json.loads makes of them: a text it
\* rejects, a list, a string, and objects without 'url', with an empty one
\* and with a long URL.
Body(j, t, u) == [json |-> j, type |-> t, url |-> u]
Bodies ==
    {Body(FALSE, "none", None), Body(TRUE, "list", None),
     Body(TRUE, "string", None), Body(TRUE, "object", None),
     Body(TRUE, "object", "")}
    \cup {Body(TRUE, "object", u) : u \in URLs}

\* POST requests: the path, whether a Content-Length header is present,
\* and the body.
PostRequests ==
    {[method |-> "POST", path |-> "/shorten", length |-> l, body |-> b] :
        l \in BOOLEAN, b \in Bodies}
    \cup {[method |-> "POST", path |-> "/other", length |-> TRUE,
            body |-> Body(TRUE, "object", UrlNames[1])]}

\* Python's truth of dict.get's result: None and '' are false.
Truthy(v) == v \notin {None, ""}

\* A response: the status, the Location header, the short_code of the body.
Response(st, loc, c) == [status |-> st, location |-> loc, short_code |-> c]

\* No request yet, and no response yet.
NoRequest == [method |-> "none"]
NoResponse == Response(0, None, None)

\* The status do_POST answers with before it calls shorten_url, 0 when it
\* reaches the call: 404 for another path; 500 from the `except Exception`
\* when int(self.headers['Content-Length']), json.loads or data.get raises;
\* 400 for a missing or empty url.
PostStatus(r) ==
    IF r.path # "/shorten" THEN 404
    ELSE IF ~r.length THEN 500
    ELSE IF ~r.body.json THEN 500
    ELSE IF r.body.type # "object" THEN 500
    ELSE IF ~Truthy(r.body.url) THEN 400
    ELSE 0

\* The server thread is between two requests.
ServerFree ==
    /\ spc["server"] = "idle"
    /\ request # NoRequest => response # NoResponse

\* do_GET: the status page for an empty stripped path; else get_long_url
\* (which takes no lock) and a redirect, or 404.
DoGet(p) ==
    /\ ServerFree
    /\ request' = [method |-> "GET", path |-> p]
    /\ LET path == PathString(StripPath(p))
           long == get_long_url(path)
       IN IF path = ""
          THEN /\ response' = Response(200, None, None)
               /\ UNCHANGED stale_read
          ELSE /\ response' = IF Truthy(long)
                              THEN Response(302, long, None)
                              ELSE Response(404, None, None)
               /\ stale_read' = IF long # None /\ ~InFile(path)
                                THEN path ELSE None
    /\ UNCHANGED <<url_mappings, reverse_mappings, map_file, lock, spc,
                   long_url, short_code, sret, returned, saw_unmapped,
                   overlapped, dirty>>
    /\ UNCHANGED <<splitVars, mediaVars, pollerVars>>

\* do_POST up to the call of shorten_url, or to the error it answers with.
DoPost(r) ==
    /\ ServerFree
    /\ request' = r
    /\ IF PostStatus(r) # 0
       THEN /\ response' = Response(PostStatus(r), None, None)
            /\ UNCHANGED <<url_mappings, reverse_mappings, map_file, lock,
                           spc, long_url, short_code, sret, returned,
                           saw_unmapped, overlapped, dirty, stale_read>>
            /\ UNCHANGED <<splitVars, mediaVars, pollerVars>>
       ELSE /\ response' = NoResponse
            /\ BeginShorten("server", r.body.url)

\* do_POST after shorten_url returned: 200 with the code.
PostRespond ==
    /\ spc["server"] = "idle"
    /\ request # NoRequest
    /\ response = NoResponse
    /\ response' = Response(200, None, sret["server"])
    /\ UNCHANGED <<url_mappings, reverse_mappings, map_file, lock, spc,
                   long_url, short_code, sret, returned, saw_unmapped,
                   overlapped, dirty, stale_read, request>>
    /\ UNCHANGED <<splitVars, mediaVars, pollerVars>>


(***************************************************************************)
(* RSSDiscordBot._split_message                                            *)
(*                                                                         *)
(* A text is a sequence of tokens: a newline, a space, or a run of n       *)
(* characters that are neither (n is the token's length). The operators    *)
(* below are Python's len, split, strip, slicing and + on such texts.      *)
(***************************************************************************)
NL == [c |-> "\n", n |-> 1]
SP == [c |-> " ", n |-> 1]
X(k) == [c |-> "x", n |-> k]

\* The message length limit _split_message compares with.
MaxMessageLen == 2000
\* The length a single over-long line is cut to, before '...' is added.
TruncatedLen == 1997
\* '...'
Ellipsis == <<[c |-> ".", n |-> 3]>>

\* The tokens the texts of the model are made of: the run lengths are those
\* around the limit (a line of 1999 fits with its newline, one of 2000 does
\* not) and two that fit twice or many times.
Alphabet == {NL, SP, X(1), X(1000), X(MaxMessageLen - 1), X(MaxMessageLen),
             X(MaxMessageLen + 1)}

RECURSIVE SeqsUpTo(_, _)
SeqsUpTo(S, k) ==
    IF k = 0 THEN {<<>>}
    ELSE LET shorter == SeqsUpTo(S, k - 1)
         IN shorter \cup {Append(s, x) : s \in shorter, x \in S}

Texts == SeqsUpTo(Alphabet, MaxTokens)

\* len(s)
RECURSIVE StrLen(_)
StrLen(s) == IF s = <<>> THEN 0 ELSE Head(s).n + StrLen(Tail(s))

\* s.split(sep), for a separator made of newlines: cur is the piece being
\* read. Matches are taken left to right and do not overlap.
RECURSIVE SplitOn(_, _, _)
SplitOn(s, sep, cur) ==
    IF s = <<>> THEN <<cur>>
    ELSE IF Len(s) >= Len(sep) /\ SubSeq(s, 1, Len(sep)) = sep
         THEN <<cur>> \o SplitOn(SubSeq(s, Len(sep) + 1, Len(s)), sep, <<>>)
         ELSE SplitOn(Tail(s), sep, Append(cur, Head(s)))

IsSpace(tok) == tok.c \in {"\n", " "}

RECURSIVE LStrip(_)
LStrip(s) ==
    IF s # <<>> /\ IsSpace(Head(s)) THEN LStrip(Tail(s)) ELSE s

RECURSIVE RStrip(_)
RStrip(s) ==
    IF s # <<>> /\ IsSpace(s[Len(s)]) THEN RStrip(SubSeq(s, 1, Len(s) - 1)) ELSE s

\* s.strip()
Strip(s) == RStrip(LStrip(s))

\* s[:k]
RECURSIVE Take(_, _)
Take(s, k) ==
    IF k = 0 \/ s = <<>> THEN <<>>
    ELSE IF Head(s).n <= k
         THEN <<Head(s)>> \o Take(Tail(s), k - Head(s).n)
         ELSE <<[Head(s) EXCEPT !.n = k]>>

\* The loop over the lines of a paragraph longer than the limit: the
\* messages so far and temp_content, after the remaining lines.
RECURSIVE SplitLines(_, _, _)
SplitLines(lines, msgs, temp_content) ==
    IF lines = <<>> THEN [messages |-> msgs, temp_content |-> temp_content]
    ELSE LET line == Head(lines)
         IN IF StrLen(temp_content \o line \o <<NL>>) > MaxMessageLen
            THEN IF temp_content # <<>>
                 THEN SplitLines(Tail(lines),
                                 Append(msgs, Strip(temp_content)),
                                 line \o <<NL>>)
                 ELSE SplitLines(Tail(lines),
                                 Append(msgs, Take(line, TruncatedLen) \o Ellipsis),
                                 temp_content)
            ELSE SplitLines(Tail(lines), msgs, temp_content \o line \o <<NL>>)

\* The loop over the paragraphs, and the final append.
RECURSIVE SplitParagraphs(_, _, _)
SplitParagraphs(paragraphs, msgs, current_message) ==
    IF paragraphs = <<>>
    THEN IF current_message # <<>>
         THEN Append(msgs, Strip(current_message))
         ELSE msgs
    ELSE LET paragraph == Head(paragraphs)
             flushed == IF current_message # <<>>
                        THEN Append(msgs, Strip(current_message))
                        ELSE msgs
         IN IF StrLen(paragraph) > MaxMessageLen
            THEN LET r == SplitLines(SplitOn(paragraph, <<NL>>, <<>>),
                                     flushed, <<>>)
                 IN SplitParagraphs(Tail(paragraphs), r.messages,
                                    r.temp_content)
            ELSE LET test_message ==
                         current_message
                         \o (IF current_message # <<>> THEN <<NL, NL>> ELSE <<>>)
                         \o paragraph
                 IN IF StrLen(test_message) > MaxMessageLen
                    THEN SplitParagraphs(Tail(paragraphs), flushed, paragraph)
                    ELSE SplitParagraphs(Tail(paragraphs), msgs, test_message)

\* _split_message(text)
split_message(text) ==
    IF StrLen(text) <= MaxMessageLen THEN <<text>>
    ELSE SplitParagraphs(SplitOn(text, <<NL, NL>>, <<>>), <<>>, <<>>)


\* The call _split_message(content).
SplitMessage ==
    /\ split_pc = "input"
    /\ messages' = split_message(content)
    /\ split_pc' = "done"
    /\ UNCHANGED content
    /\ UNCHANGED <<shortenerVars, mediaVars, pollerVars>>


(***************************************************************************)
(* RSSDiscordBot: the polling cycle                                        *)
(***************************************************************************)

\* The entries the feed can carry. The summaries carry no markup; the
\* second is long enough to need two messages. The third has no link and
\* holds a filter keyword.
EntryA == [link |-> "http://feed/a", title |-> "Alpha",
           words |-> {"Alpha"}, summary |-> <<X(1000)>>]
EntryB == [link |-> "http://feed/b", title |-> "Beta",
           words |-> {"Beta"},
           summary |-> <<X(1000), NL, NL, X(1000)>>]
EntryF == [link |-> "", title |-> "Sponsored",
           words |-> {"Sponsored", "AD"}, summary |-> <<X(1)>>]
Entries == {EntryA, EntryB, EntryF}

\* The non-empty lists fetch_rss_feed can return.
Feeds == SeqsUpTo(Entries, MaxFeed) \ {<<>>}

\* config['filter_keywords']
filter_keywords == {"Ad"}

\* str.lower on the words of the model.
Lower(w) ==
    CASE w \in {"AD", "Ad", "ad"} -> "ad"
      [] w = "Alpha" -> "alpha"
      [] w = "Beta" -> "beta"
      [] w = "Sponsored" -> "sponsored"
      [] OTHER -> w

\* _generate_item_id: base64 of the link, of the title when there is none.
generate_item_id(item) ==
    <<"b64", IF item.link # "" THEN item.link ELSE item.title>>

Ids == {generate_item_id(e) : e \in Entries}

\* _should_filter_item: some keyword, lowered, occurs in the lowered text.
should_filter_item(item) ==
    \E k \in filter_keywords : Lower(k) \in {Lower(w) : w \in item.words}

\* format_message()['content']: the marker and a space, then the summary
\* after _html_to_markdown, which strips a summary without markup.
format_message(item) ==
    IF Strip(item.summary) # <<>>
    THEN <<X(1), SP>> \o Strip(item.summary)
    ELSE <<X(1), SP>>

\* sent_items.json holding identifier set S.
SentFile(S) == [kind |-> "json", items |-> S]
\* sent_items.json absent, or rejected by json.load.
BadSentFile(k) == [kind |-> k, items |-> {}]

\* _load_sent_items
load_sent_items(f) == IF f.kind = "json" THEN f.items ELSE {}

\* What _save_sent_items leaves in the file (its exceptions are logged).
SaveSentOutcome(outcome, old, S) ==
    CASE outcome = "ok" -> SentFile(S)
      [] outcome = "open_failed" -> old
      [] outcome = "write_failed" -> BadSentFile("corrupt")

\* What a requests.post to the webhook can do: answer with a status, or
\* raise (a timeout, a connection error).
PostOutcomes ==
    {[raised |-> FALSE, status |-> st] : st \in {200, 204, 429}}
    \cup {[raised |-> TRUE, status |-> 0]}

\* `response.status_code == 204 or response.status_code == 200`
AcceptedAny(o) == TRUE
Accepted(o) == o.status = 204 \/ o.status = 200

\* config['discord_webhook_url']: the value of the sample configuration, which
\* send_to_discord refuses, and a real address.
Placeholder == "YOUR_DISCORD_WEBHOOK_URL_HERE"
WebhookUrls == {Placeholder, "https://discord/api/webhooks/1"}

\* `if webhook_url == "YOUR_DISCORD_WEBHOOK_URL_HERE": return False`
Unconfigured == webhook_url = Placeholder

\* Media URLs, cut where str.split('.') and str.split('?') cut them: the
\* strings between two marks hold neither mark.
UrlJpg == <<"http://cdn", ".", "example/a", ".", "jpg">>
UrlPngQuery == <<"http://cdn", ".", "example/b", ".", "PNG", "?", "w=640">>
UrlExe == <<"http://cdn", ".", "example/c", ".", "exe">>
UrlNoExt == <<"http://cdn", ".", "example/watch", "?", "v=1">>

\* The most media URLs a message carries in the model.
MaxMedia == 6

\* The media_urls lists of the model: up to MaxMedia URLs with allow-listed
\* extensions, one of them (at position k, none when k = 0) replaced by a
\* URL whose extension is not allow-listed.
MediaLists ==
    {[i \in 1..n |-> IF i = k THEN other
                     ELSE IF i % 2 = 1 THEN UrlJpg ELSE UrlPngQuery] :
        n \in 0..MaxMedia, k \in 0..MaxMedia, other \in {UrlExe, UrlNoExt}}

\* media_urls[:5]
MaxAttachments == 5

\* s.split('.')[-1]: what follows the last '.', all of s when it has none.
RECURSIVE AfterLastDot(_)
AfterLastDot(s) ==
    IF \E i \in 1..Len(s) : s[i] = "."
    THEN AfterLastDot(Tail(s))
    ELSE s

\* s.split('?')[0]: what precedes the first '?'.
RECURSIVE BeforeQuery(_)
BeforeQuery(s) ==
    IF s = <<>> \/ Head(s) = "?" THEN <<>>
    ELSE <<Head(s)>> \o BeforeQuery(Tail(s))

\* file_ext = media_url.split('.')[-1].split('?')[0]
file_ext(u) == BeforeQuery(AfterLastDot(u))

\* The extensions send_to_discord attaches.
AllowedExtensions ==
    {"jpg", "jpeg", "png", "gif", "webp", "mp4", "mov", "avi"}

\* str.lower on the extensions of the model.
LowerExt(e) ==
    CASE e = "PNG" -> "png"
      [] e = "JPG" -> "jpg"
      [] OTHER -> e

\* `file_ext.lower() in [...]`
ExtAllowed(u) ==
    /\ Len(file_ext(u)) = 1
    /\ LowerExt(file_ext(u)[1]) \in AllowedExtensions

\* What a requests.get of a media URL can do.
GetOutcomes ==
    {[raised |-> FALSE, status |-> st] : st \in {200, 404}}
    \cup {[raised |-> TRUE, status |-> 0]}

\* `current_files = files if i == 0 else []`
CurrentFilesAlways(p) == files
CurrentFiles(p) == IF p = 1 THEN files ELSE <<>>

\* time.sleep(2 ** attempt)
BackoffDoubled(a) == 2 ^ (a + 1)
Backoff(a) == 2 ^ a

\* `for attempt in range(max_retries)`: another iteration follows attempt a.
LoopContinues(a) == a + 1 < max_retries

\* `if attempt < max_retries - 1:` guarding the backoff sleep
SleepsAfterAlways(a) == TRUE
SleepsAfter(a) == a < max_retries - 1

\* `if item_id in self.sent_items:`
SeenNever(i) == FALSE
Seen(i) == i \in sent_items

\* `if success:` guarding self.sent_items.add(item_id)
RecordAlways(ok) == TRUE
ShouldRecord(ok) == ok

\* `if new_items_count > 0:` guarding self._save_sent_items()
ShouldSave == new_items_count > 0

\* `for item in items`: the position after the entry at i, whatever became
\* of that entry.
StopAtFailure(i, ok) == IF ok THEN i + 1 ELSE Len(items) + 1
NextEntry(i, ok) == i + 1

\* check_and_send after fetch_rss_feed returned None: `return`.
ProcessAnyway == "next_item"
AfterFetchFailure == "idle"

\* time.sleep(1) after a chunk that is not the last of its message, and
\* time.sleep(1) after an entry that was delivered.
ChunkPause == 1
EntryPause == 1

\* The chunks a send_to_discord call had accepted before a later chunk of
\* the same call failed, ps being the posts of the call.
AcceptedThenFailed(ps) ==
    {ps[i].part : i \in {k \in DOMAIN ps :
        /\ ~ps[k].raised /\ Accepted(ps[k])
        /\ \E j \in DOMAIN ps :
             j > k /\ (ps[j].raised \/ ~Accepted(ps[j]))}}

\* The locals of process_new_items and send_to_discord outside a cycle.
Locals ==
    /\ items = <<>>
    /\ idx = 1
    /\ message_parts = <<>>
    /\ attempt = 0
    /\ success = FALSE
    /\ new_items_count = 0
    /\ part = 1
    /\ all_success = TRUE
    /\ send_result = FALSE
    /\ media_urls = <<>>
    /\ dl = 1
    /\ files = <<>>
    /\ posts = <<>>
    /\ got = {}
    /\ calls = 0
    /\ handled = <<>>
    /\ posted = {}
    /\ delays = <<>>
    /\ accepted_before = {}
    /\ pause = 0

\* RSSDiscordBot.__init__ on sent-items file f, with max_retries m and
\* webhook address w.
PollerInit(f, m, w) ==
    /\ max_retries = m
    /\ webhook_url = w
    /\ sent_file = f
    /\ sent_items = load_sent_items(f)
    /\ loaded = load_sent_items(f)
    /\ pc = "idle"
    /\ fetched = "none"
    /\ Locals
    /\ delivered = {}
    /\ filtered_ids = {}
    /\ exhausted = {}
    /\ added = FALSE
    /\ write_failed = FALSE

\* The entry and identifier the loop of process_new_items is at.
item == items[idx]
item_id == generate_item_id(items[idx])

\* What the actions of a cycle leave alone: the configuration, and the
\* history of the process.
config == <<max_retries, webhook_url>>

\* check_and_send: fetch_rss_feed returns None; the cycle ends.
FetchFailed ==
    /\ pc = "idle"
    /\ fetched' = "failed"
    /\ added' = FALSE
    /\ pc' = AfterFetchFailure
    /\ UNCHANGED <<config, sent_items, sent_file, items, idx,
                   message_parts, attempt, success, new_items_count, part,
                   all_success, send_result, media_urls, dl, files, posts,
                   got, calls, handled, posted, delays, loaded, delivered,
                   filtered_ids, exhausted, write_failed>>
    /\ UNCHANGED <<accepted_before, pause>>
    /\ UNCHANGED <<shortenerVars, splitVars, mediaVars>>

\* check_and_send: fetch_rss_feed returns []; the cycle ends.
FetchEmpty ==
    /\ pc = "idle"
    /\ fetched' = "empty"
    /\ added' = FALSE
    /\ UNCHANGED <<config, sent_items, sent_file, pc, items, idx,
                   message_parts, attempt, success, new_items_count, part,
                   all_success, send_result, media_urls, dl, files, posts,
                   got, calls, handled, posted, delays, loaded, delivered,
                   filtered_ids, exhausted, write_failed>>
    /\ UNCHANGED <<accepted_before, pause>>
    /\ UNCHANGED <<shortenerVars, splitVars, mediaVars>>

\* check_and_send: fetch_rss_feed returns entries; process_new_items begins.
FetchItems(feed) ==
    /\ pc = "idle"
    /\ fetched' = "items"
    /\ items' = feed
    /\ idx' = 1
    /\ new_items_count' = 0
    /\ added' = FALSE
    /\ handled' = <<>>
    /\ posted' = {}
    /\ pc' = "next_item"
    /\ UNCHANGED <<config, sent_items, sent_file, message_parts, attempt,
                   success, part, all_success, send_result, media_urls, dl,
                   files, posts, got, calls, delays, loaded, delivered,
                   filtered_ids, exhausted, write_failed>>
    /\ pause' = 0
    /\ UNCHANGED accepted_before
    /\ UNCHANGED <<shortenerVars, splitVars, mediaVars>>

\* `if item_id in self.sent_items: continue`
SkipSent ==
    /\ pc = "next_item"
    /\ idx <= Len(items)
    /\ Seen(item_id)
    /\ idx' = NextEntry(idx, TRUE)
    /\ handled' = Append(handled, <<item_id, "seen">>)
    /\ UNCHANGED <<config, sent_items, sent_file, pc, fetched, items,
                   message_parts, attempt, success, new_items_count, part,
                   all_success, send_result, media_urls, dl, files, posts,
                   got, calls, posted, delays, loaded, delivered,
                   filtered_ids, exhausted, added, write_failed>>
    /\ UNCHANGED <<accepted_before, pause>>
    /\ UNCHANGED <<shortenerVars, splitVars, mediaVars>>

\* `if self._should_filter_item(item): self.sent_items.add(item_id); continue`
FilterItem ==
    /\ pc = "next_item"
    /\ idx <= Len(items)
    /\ ~Seen(item_id)
    /\ should_filter_item(item)
    /\ sent_items' = sent_items \cup {item_id}
    /\ filtered_ids' = filtered_ids \cup {item_id}
    /\ added' = TRUE
    /\ idx' = NextEntry(idx, TRUE)
    /\ handled' = Append(handled, <<item_id, "filtered">>)
    /\ UNCHANGED <<config, sent_file, pc, fetched, items, message_parts,
                   attempt, success, new_items_count, part, all_success,
                   send_result, media_urls, dl, files, posts, got, calls,
                   posted, delays, loaded, delivered, exhausted,
                   write_failed>>
    /\ UNCHANGED <<accepted_before, pause>>
    /\ UNCHANGED <<shortenerVars, splitVars, mediaVars>>

\* message_data = self.format_message(item); success = False; the attempt
\* loop begins (it has no iteration when max_retries is 0). The summaries of
\* Entries carry no media tags, so message_data['media_urls'] is [].
FormatItem ==
    /\ pc = "next_item"
    /\ idx <= Len(items)
    /\ ~Seen(item_id)
    /\ ~should_filter_item(item)
    /\ message_parts' = split_message(format_message(item))
    /\ media_urls' = <<>>
    /\ success' = FALSE
    /\ attempt' = 0
    /\ calls' = 0
    /\ delays' = <<>>
    /\ pc' = IF max_retries > 0 THEN "attempt" ELSE "record"
    /\ UNCHANGED <<config, sent_items, sent_file, fetched, items, idx,
                   new_items_count, part, all_success, send_result, dl,
                   files, posts, got, handled, posted, loaded, delivered,
                   filtered_ids, exhausted, added, write_failed>>
    /\ UNCHANGED <<accepted_before, pause>>
    /\ UNCHANGED <<shortenerVars, splitVars, mediaVars>>

\* send_to_discord is called. With the placeholder for a webhook address it
\* returns False at once; else files = [], and the media URLs are fetched
\* when there are any, before all_success = True and the loop over the
\* chunks.
BeginAttempt ==
    /\ pc = "attempt"
    /\ calls' = calls + 1
    /\ posts' = <<>>
    /\ got' = {}
    /\ files' = <<>>
    /\ dl' = 1
    /\ part' = 1
    /\ all_success' = TRUE
    /\ IF Unconfigured
       THEN /\ send_result' = FALSE
            /\ pc' = "returned"
       ELSE /\ pc' = IF media_urls # <<>> THEN "download" ELSE "post"
            /\ UNCHANGED send_result
    /\ UNCHANGED <<config, sent_items, sent_file, fetched, items, idx,
                   message_parts, attempt, success, new_items_count,
                   media_urls, handled, posted, delays, loaded, delivered,
                   filtered_ids, exhausted, added, write_failed>>
    /\ UNCHANGED <<accepted_before, pause>>
    /\ UNCHANGED <<shortenerVars, splitVars, mediaVars>>

\* send_to_discord fetches one of media_urls[:5]: on a 200 answer and an
\* allow-listed extension the file is appended to files; a raise is logged
\* and the loop continues.
Download(r) ==
    /\ pc = "download"
    /\ IF ~r.raised /\ r.status = 200
       THEN /\ got' = got \cup {dl}
            /\ files' = IF ExtAllowed(media_urls[dl])
                        THEN Append(files, [n |-> dl,
                                            ext |-> file_ext(media_urls[dl])])
                        ELSE files
       ELSE UNCHANGED <<got, files>>
    /\ dl' = dl + 1
    /\ pc' = IF dl < Len(media_urls) /\ dl < MaxAttachments
             THEN "download" ELSE "post"
    /\ UNCHANGED <<config, sent_items, sent_file, fetched, items, idx,
                   message_parts, attempt, success, new_items_count, part,
                   all_success, send_result, media_urls, posts, calls,
                   handled, posted, delays, loaded, delivered, filtered_ids,
                   exhausted, added, write_failed>>
    /\ UNCHANGED <<accepted_before, pause>>
    /\ UNCHANGED <<shortenerVars, splitVars, mediaVars>>

\* send_to_discord posts one chunk, with current_files as multipart form
\* data when there are any and as JSON otherwise. A raise ends the call with
\* False; any other status than 200 and 204 clears all_success. After the
\* last chunk the call returns all_success; before it, it sleeps one second.
PostChunk(o) ==
    /\ pc = "post"
    /\ posts' = Append(posts, [part |-> part,
                               files |-> CurrentFiles(part),
                               json |-> CurrentFiles(part) = <<>>,
                               raised |-> o.raised,
                               status |-> o.status])
    /\ posted' = posted \cup {item_id}
    /\ IF o.raised
       THEN /\ send_result' = FALSE
            /\ pc' = "returned"
            /\ UNCHANGED <<all_success, part>>
       ELSE /\ all_success' = (all_success /\ Accepted(o))
            /\ IF part < Len(message_parts)
               THEN /\ part' = part + 1
                    /\ UNCHANGED <<pc, send_result>>
               ELSE /\ send_result' = all_success'
                    /\ pc' = "returned"
                    /\ UNCHANGED part
    /\ UNCHANGED <<config, sent_items, sent_file, fetched, items, idx,
                   message_parts, attempt, success, new_items_count,
                   media_urls, dl, files, got, calls, handled, delays,
                   loaded, delivered, filtered_ids, exhausted, added,
                   write_failed>>
    /\ accepted_before' = IF pc' = "returned"
                          THEN accepted_before \cup AcceptedThenFailed(posts')
                          ELSE accepted_before
    /\ pause' = IF ~o.raised /\ part < Len(message_parts)
                THEN ChunkPause ELSE 0
    /\ UNCHANGED <<shortenerVars, splitVars, mediaVars>>

\* The attempt loop after send_to_discord returned: success and break, or
\* a backoff sleep when the attempt was not the last, and the next attempt
\* or the end of the loop. The locals of send_to_discord are gone.
AfterSend ==
    /\ pc = "returned"
    /\ IF send_result
       THEN /\ success' = TRUE
            /\ delivered' = delivered \cup {item_id}
            /\ pc' = "record"
            /\ UNCHANGED <<attempt, delays>>
       ELSE /\ delays' = IF SleepsAfter(attempt)
                         THEN Append(delays, Backoff(attempt))
                         ELSE delays
            /\ IF LoopContinues(attempt)
               THEN /\ attempt' = attempt + 1
                    /\ pc' = "attempt"
               ELSE /\ pc' = "record"
                    /\ UNCHANGED attempt
            /\ UNCHANGED <<success, delivered>>
    /\ posts' = <<>>
    /\ got' = {}
    /\ files' = <<>>
    /\ dl' = 1
    /\ part' = 1
    /\ all_success' = TRUE
    /\ send_result' = FALSE
    /\ UNCHANGED <<config, sent_items, sent_file, fetched, items, idx,
                   message_parts, new_items_count, media_urls, calls,
                   handled, posted, loaded, filtered_ids, exhausted, added,
                   write_failed>>
    /\ pause' = IF ~send_result /\ SleepsAfter(attempt)
                THEN pause + Backoff(attempt) ELSE pause
    /\ UNCHANGED accepted_before
    /\ UNCHANGED <<shortenerVars, splitVars, mediaVars>>

\* After the attempt loop: `if success:` record the identifier, count it
\* and sleep one second; else log the failure. Then the next entry.
Record ==
    /\ pc = "record"
    /\ IF ShouldRecord(success)
       THEN /\ sent_items' = sent_items \cup {item_id}
            /\ new_items_count' = new_items_count + 1
            /\ added' = TRUE
       ELSE UNCHANGED <<sent_items, new_items_count, added>>
    /\ exhausted' = IF success THEN exhausted \ {item_id}
                    ELSE exhausted \cup {item_id}
    /\ handled' = Append(handled, <<item_id, IF success THEN "delivered"
                                              ELSE "failed">>)
    /\ idx' = NextEntry(idx, success)
    /\ pc' = "next_item"
    /\ UNCHANGED <<config, sent_file, fetched, items, message_parts,
                   attempt, success, part, all_success, send_result,
                   media_urls, dl, files, posts, got, calls, posted, delays,
                   loaded, delivered, filtered_ids, write_failed>>
    /\ pause' = IF success THEN pause + EntryPause ELSE pause
    /\ accepted_before' = {}
    /\ UNCHANGED <<shortenerVars, splitVars, mediaVars>>

\* The end of process_new_items: `if new_items_count > 0:
\* self._save_sent_items()`, and the cycle ends; the locals of
\* process_new_items and send_to_discord are gone.
Finish ==
    /\ pc = "next_item"
    /\ idx > Len(items)
    /\ IF ShouldSave
       THEN \E outcome \in SaveOutcomes :
              /\ sent_file' = SaveSentOutcome(outcome, sent_file, sent_items)
              /\ write_failed' = (write_failed \/ outcome # "ok")
       ELSE UNCHANGED <<sent_file, write_failed>>
    /\ pc' = "idle"
    /\ items' = <<>>
    /\ idx' = 1
    /\ message_parts' = <<>>
    /\ attempt' = 0
    /\ success' = FALSE
    /\ new_items_count' = 0
    /\ part' = 1
    /\ all_success' = TRUE
    /\ send_result' = FALSE
    /\ media_urls' = <<>>
    /\ calls' = 0
    /\ delays' = <<>>
    /\ UNCHANGED <<config, sent_items, fetched, dl, files, posts, got,
                   handled, posted, loaded, delivered, filtered_ids,
                   exhausted, added>>
    /\ pause' = 0
    /\ UNCHANGED accepted_before
    /\ UNCHANGED <<shortenerVars, splitVars, mediaVars>>

\* The process is stopped between two cycles and started again: __init__
\* loads sent_items from the file.
Restart ==
    /\ pc = "idle"
    /\ fetched # "none"
    /\ sent_items' = load_sent_items(sent_file)
    /\ loaded' = load_sent_items(sent_file)
    /\ delivered' = {}
    /\ filtered_ids' = {}
    /\ fetched' = "none"
    /\ UNCHANGED <<config, sent_file, pc, items, idx, message_parts,
                   attempt, success, new_items_count, part, all_success,
                   send_result, media_urls, dl, files, posts, got, calls,
                   handled, posted, delays, exhausted, added, write_failed>>
    /\ UNCHANGED <<accepted_before, pause>>
    /\ UNCHANGED <<shortenerVars, splitVars, mediaVars>>

(***************************************************************************)
(* RSSDiscordBot._extract_media_urls                                       *)
(***************************************************************************)

\* An HTML text is a sequence of tags, a tag a name and its attributes in
\* the order they are written, as <<name, value>> pairs.
Tag(name, attrs) == [tag |-> name, attrs |-> attrs]

\* The tags the texts of the model are made of: images with and without a
\* src, videos with a src, a poster, both in either order.
MediaTags ==
    { Tag("img", << <<"src", "a.png">> >>),
      Tag("img", << <<"alt", "x">> >>),
      Tag("video", << <<"src", "b.mp4">> >>),
      Tag("video", << <<"src", "b.mp4">>, <<"poster", "c.jpg">> >>),
      Tag("video", << <<"poster", "c.jpg">>, <<"src", "b.mp4">> >>),
      Tag("video", << <<"poster", "c.jpg">> >>),
      Tag("video", << <<"controls", "">> >>) }

\* The most tags of an HTML text of the model.
MaxTags == 3

Htmls == SeqsUpTo(MediaTags, MaxTags)

\* The tag has the attribute.
HasAttr(t, attr) == \E k \in DOMAIN t.attrs : t.attrs[k][1] = attr

\* The value the pattern <name[^>]+attr=["']([^"'>]+)["'][^>]*> captures in
\* the tag: [^>]+ is greedy, so the last attribute of that name.
AttrValue(t, attr) ==
    LET ks == {k \in DOMAIN t.attrs : t.attrs[k][1] = attr}
    IN t.attrs[CHOOSE k \in ks : \A j \in ks : j <= k][2]

\* re.findall(pattern, html_content) for the pattern of tag `name` and
\* attribute `attr`: the captured values, in the order of their tags.
FindAll(html, name, attr) ==
    LET matching == SelectSeq(html, LAMBDA t : t.tag = name /\ HasAttr(t, attr))
    IN [i \in DOMAIN matching |-> AttrValue(matching[i], attr)]

\* _extract_media_urls(html)
extract_media_urls(html) ==
    FindAll(html, "img", "src")
    \o FindAll(html, "video", "src")
    \o FindAll(html, "video", "poster")

\* No HTML has been given to _extract_media_urls.
MediaIdle ==
    /\ html_content = <<>>
    /\ extracted_urls = <<>>
    /\ media_pc = "idle"

\* The call _extract_media_urls(html_content).
ExtractMediaUrls ==
    /\ media_pc = "input"
    /\ extracted_urls' = extract_media_urls(html_content)
    /\ media_pc' = "done"
    /\ UNCHANGED html_content
    /\ UNCHANGED <<shortenerVars, splitVars, pollerVars>>

(***************************************************************************)
(* The specifications                                                      *)
(***************************************************************************)

\* No text has been given to _split_message.
SplitIdle ==
    /\ content = <<>>
    /\ messages = <<>>
    /\ split_pc = "idle"

\* URLShortener with no mapping file, no call running.
ShortenerIdle == ShortenerInit(BadFile("missing"))

\* RSSDiscordBot with no sent-items file, before its first cycle.
PollerIdle ==
    PollerInit(BadSentFile("missing"), MaxRetries, "https://discord/api/webhooks/1")

InitShortener ==
    /\ \E f \in {JsonFile(m) : m \in StoredMappings} \cup {BadFile("missing")} :
         ShortenerInit(f)
    /\ SplitIdle
    /\ MediaIdle
    /\ PollerIdle

NextShortener ==
    \/ \E t \in Threads, u \in URLs : ShortenCall(t, u)
    \/ \E t \in Threads : ShortenAcquire(t)
    \/ \E t \in Threads : ShortenExisting(t)
    \/ \E t \in Threads : ShortenGenerate(t)
    \/ \E t \in Threads : ShortenInsertFwd(t)
    \/ \E t \in Threads : ShortenInsertRev(t)
    \/ \E t \in Threads : ShortenSave(t)
    \/ \E t \in Threads : ShortenReturn(t)
    \/ \E c \in Codes : Resolve(c)

SpecShortener == InitShortener /\ [][NextShortener]_vars

\* The HTTP server on its own: the HTTPServer's one thread handles a request
\* to its end before it accepts the next.
InitHttp == InitShortener

NextHttp ==
    \/ \E p \in Paths : DoGet(p)
    \/ \E r \in PostRequests : DoPost(r)
    \/ ShortenAcquire("server")
    \/ ShortenExisting("server")
    \/ ShortenGenerate("server")
    \/ ShortenInsertFwd("server")
    \/ ShortenInsertRev("server")
    \/ ShortenSave("server")
    \/ ShortenReturn("server")
    \/ PostRespond

SpecHttp == InitHttp /\ [][NextHttp]_vars

InitSplit ==
    /\ content \in Texts
    /\ messages = <<>>
    /\ split_pc = "input"
    /\ ShortenerIdle
    /\ MediaIdle
    /\ PollerIdle

NextSplit == SplitMessage

SpecSplit == InitSplit /\ [][NextSplit]_vars

InitMedia ==
    /\ html_content \in Htmls
    /\ extracted_urls = <<>>
    /\ media_pc = "input"
    /\ ShortenerIdle
    /\ SplitIdle
    /\ PollerIdle

NextMedia == ExtractMediaUrls

SpecMedia == InitMedia /\ [][NextMedia]_vars

\* The sent-items files a start of the bot can find.
StoredSentFiles ==
    {BadSentFile("missing"), SentFile({generate_item_id(EntryA)})}

Init ==
    /\ \E f \in StoredSentFiles, m \in 0..MaxRetries, w \in WebhookUrls :
         PollerInit(f, m, w)
    /\ ShortenerIdle
    /\ SplitIdle
    /\ MediaIdle

Next ==
    \/ FetchFailed
    \/ FetchEmpty
    \/ \E feed \in Feeds : FetchItems(feed)
    \/ SkipSent
    \/ FilterItem
    \/ FormatItem
    \/ BeginAttempt
    \/ \E o \in PostOutcomes : PostChunk(o)
    \/ AfterSend
    \/ Record
    \/ Finish
    \/ Restart

Spec == Init /\ [][Next]_vars

\* send_to_discord about to be called for an entry whose message carries
\* media URLs: the state FormatItem leaves, with media_urls filled.
InitSend ==
    /\ \E e \in {EntryA, EntryB}, m \in MediaLists :
         /\ items = <<e>>
         /\ message_parts = split_message(format_message(e))
         /\ media_urls = m
    /\ max_retries = MaxRetries
    /\ webhook_url \in WebhookUrls \ {Placeholder}
    /\ sent_file = BadSentFile("missing")
    /\ sent_items = {}
    /\ loaded = {}
    /\ pc = "attempt"
    /\ fetched = "items"
    /\ idx = 1
    /\ attempt = 0
    /\ success = FALSE
    /\ new_items_count = 0
    /\ part = 1
    /\ all_success = TRUE
    /\ send_result = FALSE
    /\ dl = 1
    /\ files = <<>>
    /\ posts = <<>>
    /\ got = {}
    /\ calls = 0
    /\ handled = <<>>
    /\ posted = {}
    /\ delays = <<>>
    /\ delivered = {}
    /\ filtered_ids = {}
    /\ exhausted = {}
    /\ added = FALSE
    /\ write_failed = FALSE
    /\ accepted_before = {}
    /\ pause = 0
    /\ ShortenerIdle
    /\ SplitIdle
    /\ MediaIdle

NextSend ==
    \/ BeginAttempt
    \/ \E r \in GetOutcomes : Download(r)
    \/ \E o \in PostOutcomes : PostChunk(o)

SpecSend == InitSend /\ [][NextSend]_vars

(***************************************************************************)
(* Properties of the URL shortener, checked under SpecShortener.           *)
(***************************************************************************)

\* The codes of the in-memory mapping that map to URL u.
CodesOf(u) == {c \in DOMAIN url_mappings : url_mappings[c] = u}

\* The thread holding the lock has put its code in url_mappings and
\* save_mappings has not yet run for it.
Unsaved(c) ==
    /\ lock # None
    /\ spc[lock] \in {"insert_rev", "save"}
    /\ short_code[lock] = c

\* C1: code uniqueness under concurrency. Whatever the interleaving of the
\* threads' shorten_url calls, two different long URLs never get the same
\* code: neither as return values nor in the reverse mapping.
C1_CodeUniqueness ==
    /\ \A p \in returned, q \in returned : p[1] # q[1] => p[2] # q[2]
    /\ \A u1 \in DOMAIN reverse_mappings, u2 \in DOMAIN reverse_mappings :
          u1 # u2 => reverse_mappings[u1] # reverse_mappings[u2]

\* Two overlapping calls on different unmapped URLs have both returned.
C1_Witness ==
    \E t1 \in Threads, t2 \in Threads :
        /\ t1 # t2
        /\ spc[t1] = "idle" /\ spc[t2] = "idle"
        /\ sret[t1] # None /\ sret[t2] # None
        /\ long_url[t1] # long_url[t2]
        /\ overlapped[t1] /\ overlapped[t2]
        /\ saw_unmapped[t1] /\ saw_unmapped[t2]
        /\ sret[t1] # sret[t2]

\* C2: idempotent shortening. Every call of shorten_url(u) returns the same
\* code, whatever calls come between, and get_long_url of a returned code
\* is the URL it was returned for.
C2_Idempotent ==
    /\ \A p \in returned, q \in returned : p[1] = q[1] => p[2] = q[2]
    /\ \A p \in returned : get_long_url(p[2]) = p[1]

\* One thread created the code of a URL and the other, calling later with
\* the same URL, got the same code.
C2_Witness ==
    \E t1 \in Threads, t2 \in Threads :
        /\ t1 # t2
        /\ spc[t1] = "idle" /\ spc[t2] = "idle"
        /\ long_url[t1] = long_url[t2]
        /\ saw_unmapped[t1] /\ ~saw_unmapped[t2]
        /\ sret[t1] # None /\ sret[t2] = sret[t1]
        /\ get_long_url(sret[t2]) = long_url[t2]

\* C3: two threads call shorten_url concurrently with the same URL, unmapped
\* when each call began: one code is created for it and both calls return
\* that code. No URL ever has two codes in the mapping.
C3_SameUrlOneCode ==
    /\ \A u \in URLs : Cardinality(CodesOf(u)) <= 1
    /\ \A t1 \in Threads, t2 \in Threads :
          ( /\ t1 # t2
            /\ spc[t1] = "idle" /\ spc[t2] = "idle"
            /\ sret[t1] # None /\ sret[t2] # None
            /\ long_url[t1] = long_url[t2]
            /\ saw_unmapped[t1] /\ saw_unmapped[t2] )
          => /\ sret[t1] = sret[t2]
             /\ CodesOf(long_url[t1]) = {sret[t1]}

\* Both threads called with the same unmapped URL before either had
\* inserted it, and both have returned.
C3_Witness ==
    \E t1 \in Threads, t2 \in Threads :
        /\ t1 # t2
        /\ spc[t1] = "idle" /\ spc[t2] = "idle"
        /\ sret[t1] # None /\ sret[t2] # None
        /\ long_url[t1] = long_url[t2]
        /\ saw_unmapped[t1] /\ saw_unmapped[t2]

C17_NoRollbackOnSaveFailure ==
    /\ []( \A t \in Threads :
             (spc[t] = "return" /\ dirty)
             => /\ get_long_url(short_code[t]) = long_url[t]
                /\ long_url[t] \in DOMAIN reverse_mappings
                /\ reverse_mappings[long_url[t]] = short_code[t] )
    /\ []( \A p \in returned :
             ~InFile(p[2])
             => /\ get_long_url(p[2]) = p[1]
                /\ reverse_mappings[p[1]] = p[2]
                /\ \A q \in returned : q[1] = p[1] => q[2] = p[2] )
    /\ [][ \A t \in Threads :
             (spc[t] = "return" /\ spc'[t] = "idle")
             => /\ sret'[t] = short_code[t]
                /\ <<long_url[t], short_code[t]>> \in returned' ]_vars

\* No save_mappings has succeeded (the file is still absent), yet the call
\* that created a code returned it, a later call of the other thread with
\* the same URL returned the same code, and get_long_url found it.
C17_Witness ==
    \E t1 \in Threads, t2 \in Threads :
        /\ t1 # t2
        /\ map_file.kind = "missing"
        /\ spc[t1] = "idle" /\ spc[t2] = "idle"
        /\ long_url[t1] = long_url[t2]
        /\ saw_unmapped[t1] /\ ~saw_unmapped[t2]
        /\ sret[t1] # None /\ sret[t2] = sret[t1]
        /\ stale_read = sret[t1]
        /\ get_long_url(sret[t1]) = long_url[t1]

(***************************************************************************)
(* Properties of the HTTP handler, checked under SpecHttp.                 *)
(***************************************************************************)

\* A creation request that is malformed: no Content-Length, a body that is
\* not JSON or not a JSON object, or no url in it, or an empty one.
Malformed(r) ==
    /\ r.method = "POST"
    /\ r.path = "/shorten"
    /\ \/ ~r.length
       \/ ~r.body.json
       \/ r.body.type # "object"
       \/ r.body.url \in {None, ""}

\* C16: a malformed creation request is answered with a client error (4xx)
\* and creates no mapping.
C16_MalformedPostIs4xx ==
    /\ []( (Malformed(request) /\ response # NoResponse)
           => response.status \in 400..499 )
    /\ [][ Malformed(request')
           => /\ url_mappings' = url_mappings
              /\ reverse_mappings' = reverse_mappings
              /\ map_file' = map_file ]_vars

\* The code a request path names: the path without the slashes around it.
StripSlashes(s) == StripRight(StripLeft(s, {"/"}), {"/"})

\* C19: the GET protocol. The root path is answered with 200; any other
\* path with 302 and the mapped long URL as Location when its code (the
\* path without its slashes) is in the mapping, and with 404 when not.
C19_GetProtocol ==
    (request.method = "GET" /\ response # NoResponse)
    => LET code == StripSlashes(request.path)
       IN IF code = <<>>
          THEN response.status = 200
          ELSE IF Len(code) = 1 /\ code[1] \in DOMAIN url_mappings
               THEN /\ response.status = 302
                    /\ response.location = url_mappings[code[1]]
               ELSE response.status = 404

(***************************************************************************)
(* Properties of the polling cycle, checked under Spec.                    *)
(***************************************************************************)

\* C5: dedup monotonicity. An identifier of sent_items stays in it in every
\* later state, also across a restart that loads the set from the file
\* (write errors of _save_sent_items set aside).
C5_DedupMonotone ==
    [][~write_failed' => sent_items \subseteq sent_items']_vars

\* The loop of process_new_items is at an entry that is due for delivery:
\* not in sent_items and not filtered.
DueForDelivery ==
    /\ pc = "next_item"
    /\ idx <= Len(items)
    /\ ~should_filter_item(item)

\* C7: an entry whose attempt loop ended without a successful delivery is
\* not in sent_items, and when a cycle reaches it again (unfiltered) the
\* attempt loop is entered again for it.
C7_FailedEntryRetried ==
    [][ /\ exhausted' \cap sent_items' = {}
        /\ (DueForDelivery /\ item_id \in exhausted /\ max_retries > 0)
             => pc' = "attempt" ]_vars

\* A cycle starts the attempt loop for its first entry, whose delivery
\* failed on every attempt of an earlier cycle.
C7_Witness ==
    /\ pc = "attempt"
    /\ idx = 1
    /\ attempt = 0
    /\ item_id \in exhausted
    /\ item_id \notin sent_items

\* C8: retry backoff. When the k-th attempt for an entry succeeds after
\* k-1 failed ones (attempt = k-1, k <= max_retries), the sleeps between
\* the attempts were exactly 2^0, ..., 2^(k-2) seconds in that order, and
\* the step that follows records the identifier.
C8_RetryBackoff ==
    [][ (pc = "record" /\ success)
          => /\ attempt + 1 <= max_retries
             /\ Len(delays) = attempt
             /\ \A i \in 1..Len(delays) : delays[i] = 2 ^ (i - 1)
             /\ item_id \in sent_items' ]_vars

\* The first entry of a cycle was recorded after two failed attempts and a
\* successful third, with max_retries = 3.
C8_Witness ==
    /\ pc = "next_item"
    /\ idx = 2
    /\ max_retries = 3
    /\ success
    /\ attempt = 2
    /\ delays = <<1, 2>>
    /\ generate_item_id(items[1]) \in sent_items
    /\ generate_item_id(items[1]) \notin loaded

\* C9 as claimed: every identifier of sent_items was loaded at startup or
\* belongs to an entry whose delivery returned success.
C9_OnlyDelivered == sent_items \subseteq (loaded \cup delivered)

\* C9 as amended: every identifier of sent_items was loaded at startup,
\* belongs to an entry whose delivery returned success, or belongs to an
\* entry that matched a filter keyword.
C9_OnlyDeliveredOrFiltered ==
    sent_items \subseteq (loaded \cup delivered \cup filtered_ids)

\* sent_items holds an identifier recorded on delivery and one recorded
\* because its entry was filtered, neither loaded at startup.
C9_Witness ==
    /\ \E i \in sent_items : i \in delivered /\ i \notin loaded \cup filtered_ids
    /\ \E i \in sent_items : i \in filtered_ids /\ i \notin loaded \cup delivered

\* C10: after a cycle that added an identifier to sent_items, the file
\* holds exactly the in-memory set (absent write errors).
C10_PersistedAfterAdding ==
    (pc = "idle" /\ added /\ ~write_failed) => sent_file = SentFile(sent_items)

\* The identifiers the last cycle handled with outcome d.
HandledAs(d) == {handled[i][1] : i \in {j \in 1..Len(handled) : handled[j][2] = d}}

\* C11: end-to-end dedup. The loop of process_new_items hands an entry to
\* format_message and the attempt loop exactly when its identifier is not in
\* sent_items when the loop reaches it and no filter keyword matches it, and
\* only such entries are posted to the webhook. After a cycle over a feed of
\* two entries, one already seen and one unseen whose delivery succeeded,
\* only the unseen one was posted and (no write having failed) the file
\* holds both identifiers.
C11_EndToEndDedup ==
    /\ [][ /\ (pc = "next_item" /\ idx <= Len(items))
               => ( (pc' \in {"attempt", "record"})
                    <=> (item_id \notin sent_items
                         /\ ~should_filter_item(item)) )
           /\ \A i \in posted' \ posted :
                  /\ i = item_id
                  /\ i \notin sent_items
                  /\ ~should_filter_item(item) ]_vars
    /\ []( ( /\ pc = "idle"
             /\ Len(handled) = 2
             /\ {handled[1][2], handled[2][2]} = {"seen", "delivered"}
             /\ ~write_failed )
           => /\ posted = HandledAs("delivered")
              /\ HandledAs("seen") \cup HandledAs("delivered")
                    \subseteq load_sent_items(sent_file)
              /\ sent_file.kind = "json" )

\* A cycle over a feed of two different entries has ended: the first was
\* already in sent_items, the second was delivered, and the file holds both
\* identifiers.
C11_Witness ==
    /\ pc = "idle"
    /\ Len(handled) = 2
    /\ handled[1][2] = "seen"
    /\ handled[2][2] = "delivered"
    /\ handled[1][1] # handled[2][1]
    /\ posted = {handled[2][1]}
    /\ sent_file = SentFile({handled[1][1], handled[2][1]})

\* The last requests.post of the running send_to_discord call, after a step.
LastPost == posts'[Len(posts')]

\* C12: a failed chunk does not abort send_to_discord. When the post of a
\* chunk that is not the last one fails (a status other than 200 and 204,
\* or a raise of requests.post), the call goes on to post the next chunk.
C12_FailedChunkContinues ==
    [][ ( /\ pc = "post"
          /\ part < Len(message_parts)
          /\ Len(posts') = Len(posts) + 1
          /\ (LastPost.raised \/ LastPost.status \notin {200, 204}) )
        => (pc' = "post" /\ part' = part + 1) ]_vars

\* C13: send_to_discord returns True only if the webhook address is not the
\* placeholder and every chunk of the message was posted and answered with
\* 200 or 204; when a chunk got another status, a post raised, or the
\* address is the placeholder, it returns False.
C13_TrueOnlyIfAllAccepted ==
    pc = "returned" =>
        ( send_result
          <=> /\ webhook_url # Placeholder
              /\ Len(posts) = Len(message_parts)
              /\ \A i \in 1..Len(posts) :
                    /\ posts[i].part = i
                    /\ ~posts[i].raised
                    /\ posts[i].status \in {200, 204} )

\* send_to_discord returned True for a message of two chunks, the first
\* answered with 200 and the second with 204.
C13_Witness ==
    /\ pc = "returned"
    /\ send_result
    /\ Len(message_parts) = 2
    /\ Len(posts) = 2
    /\ posts[1].status = 200
    /\ posts[2].status = 204

\* C14: entries are processed one at a time in feed order and each is
\* isolated. During a cycle the entries before the loop's position have been
\* handled, in feed order; whatever the outcome of an entry (seen, filtered,
\* delivered, failed after all attempts) the loop moves to the next entry,
\* which is dedup-checked and filter-checked and, if eligible, enters the
\* attempt loop; the cycle ends only when every entry has been handled.
C14_EntryIsolation ==
    /\ []( pc # "idle"
           => /\ Len(handled) = idx - 1
              /\ idx <= Len(items) + 1
              /\ \A i \in 1..Len(handled) :
                    handled[i][1] = generate_item_id(items[i]) )
    /\ [][ /\ (pc = "record") => (pc' = "next_item" /\ idx' = idx + 1)
           /\ (pc = "next_item" /\ idx <= Len(items))
                => \/ /\ idx' = idx + 1
                      /\ pc' = "next_item"
                      /\ (item_id \in sent_items \/ should_filter_item(item))
                   \/ /\ idx' = idx
                      /\ pc' \in {"attempt", "record"}
           /\ (pc = "next_item" /\ pc' = "idle")
                => Len(handled) = Len(items) ]_vars

\* A cycle over two entries has ended: the delivery of the first failed on
\* every attempt and the second was delivered all the same.
C14_Witness ==
    /\ pc = "idle"
    /\ Len(handled) = 2
    /\ handled[1][2] = "failed"
    /\ handled[2][2] = "delivered"
    /\ handled[1][1] \in exhausted
    /\ handled[2][1] \in sent_items

\* C15: a fetch failure aborts the cycle with all state unchanged. The step
\* of check_and_send in which fetch_rss_feed returns None starts and ends
\* outside a cycle and leaves sent_items, the sent-items file, the URL
\* mapping (both directions and its file) and the record of webhook posts
\* as they were.
C15_FetchFailureFrame ==
    [][ fetched' = "failed"
        => /\ pc = "idle" /\ pc' = "idle"
           /\ sent_items' = sent_items
           /\ sent_file' = sent_file
           /\ url_mappings' = url_mappings
           /\ reverse_mappings' = reverse_mappings
           /\ map_file' = map_file
           /\ posted' = posted
           /\ posts' = posts
           /\ handled' = handled ]_vars

\* A fetch has failed in a process that had delivered an entry and saved
\* its identifier in an earlier cycle.
C15_Witness ==
    /\ pc = "idle"
    /\ fetched = "failed"
    /\ posted # {}
    /\ posted \subseteq sent_items
    /\ sent_file = SentFile(sent_items)

\* C20: for each entry of a cycle send_to_discord is called at most
\* max_retries times and never after a call returned True; a backoff sleep
\* follows every failed call but the last; and the identifier is recorded
\* once, after the attempt loop, only when a call succeeded.
C20_BoundedAttempts ==
    /\ []( /\ calls <= max_retries
           /\ pc \in {"attempt", "post", "returned"}
                => (~success /\ calls = attempt + (IF pc = "attempt" THEN 0 ELSE 1))
           /\ pc = "record"
                => /\ Len(delays) = (IF calls = 0 THEN 0 ELSE calls - 1)
                   /\ ~success => calls = max_retries )
    /\ [][ /\ (pc = "record" /\ ~success) => sent_items' = sent_items
           /\ (pc = "record" /\ success)
                => /\ sent_items' = sent_items \cup {item_id}
                   /\ new_items_count' = new_items_count + 1
                   /\ pc' = "next_item"
           /\ pc \in {"attempt", "post", "returned"}
                => (sent_items' = sent_items
                    /\ new_items_count' = new_items_count) ]_vars

\* The attempt loop of an entry has ended after max_retries = 3 failed
\* calls, with two backoff sleeps and none after the last call.
C20_Witness ==
    /\ pc = "record"
    /\ max_retries = 3
    /\ calls = 3
    /\ ~success
    /\ delays = <<1, 2>>
    /\ item_id \notin sent_items

(***************************************************************************)
(* Properties of send_to_discord, checked under SpecSend.                  *)
(***************************************************************************)

\* C18: in a send_to_discord call at most 5 files are attached; every
\* attached file comes from one of the first 5 media URLs, was fetched with
\* a 200 answer and has an allow-listed extension (jpg, jpeg, png, gif,
\* webp, mp4, mov, avi, in any case); files go with the first chunk only,
\* and every chunk without files is posted as JSON.
C18_Attachments ==
    \A i \in 1..Len(posts) :
        /\ Len(posts[i].files) <= 5
        /\ \A k \in 1..Len(posts[i].files) :
              LET f == posts[i].files[k]
              IN /\ f.n \in 1..Len(media_urls)
                 /\ f.n <= 5
                 /\ f.n \in got
                 /\ f.ext = file_ext(media_urls[f.n])
                 /\ f.ext \in {<<e>> : e \in {"jpg", "jpeg", "png", "gif",
                                               "webp", "mp4", "mov", "avi",
                                               "JPG", "PNG"}}
        /\ posts[i].part > 1 => (posts[i].files = <<>> /\ posts[i].json)
        /\ posts[i].json <=> posts[i].files = <<>>

\* A message of two chunks with more than five attachable media URLs, all
\* fetched: the first chunk went out with five files, the second as JSON
\* without any.
C18_Witness ==
    /\ Len(media_urls) > 5
    /\ \A i \in 1..Len(media_urls) : ExtAllowed(media_urls[i])
    /\ Len(posts) = 2
    /\ Len(posts[1].files) = 5
    /\ ~posts[1].json
    /\ posts[2].files = <<>>
    /\ posts[2].json

(***************************************************************************)
(* Properties of _split_message, checked under SpecSplit.                  *)
(***************************************************************************)

\* C6: chunk size bound. Every chunk _split_message returns has length at
\* most 2000, whatever the text.
C6_ChunkSizeBound ==
    split_pc = "done" =>
        \A i \in 1..Len(messages) : StrLen(messages[i]) <= MaxMessageLen


(***************************************************************************)
(* Concurrency of the HTTP listener, checked under SpecHttp.               *)
(***************************************************************************)

\* The listener has taken a request and not yet answered it.
InProgress == request # NoRequest /\ response = NoResponse

\* C24: each request runs on a worker of its own, so that two requests can
\* be in progress at once: while a request is in progress, the handling of
\* another request can begin.
C24_RequestsOverlap ==
    InProgress => ENABLED (\E p \in Paths : DoGet(p))

\* A POST /shorten is in progress, inside shorten_url.
C24_Busy ==
    /\ InProgress
    /\ request.method = "POST"
    /\ spc["server"] = "save"

(***************************************************************************)
(* Truncation of over-long lines, checked under SpecSplit.                 *)
(***************************************************************************)

\* The lines of the paragraphs of text that are longer than the limit.
LinesOfLongParagraphs(text) ==
    LET paragraphs == SplitOn(text, <<NL, NL>>, <<>>)
        long == {i \in DOMAIN paragraphs :
                    StrLen(paragraphs[i]) > MaxMessageLen}
    IN UNION {LET lines == SplitOn(paragraphs[i], <<NL>>, <<>>)
              IN {lines[k] : k \in DOMAIN lines} : i \in long}

\* line[:1997] + '...'
Truncation(line) == Take(line, TruncatedLen) \o Ellipsis

\* The chunk is a truncated line: no text of the model has a '.' of its own.
IsTruncation(m) == m # <<>> /\ m[Len(m)] = Ellipsis[1]

\* C23: in a paragraph longer than 2000 characters, a line is cut to its
\* first 1997 characters plus '...' and made a chunk of its own if and only
\* if it is longer than 2000: every such line's truncation is a chunk, and
\* every truncated chunk is the truncation of such a line.
C23_TruncatedIffOverlong ==
    (split_pc = "done" /\ StrLen(content) > MaxMessageLen) =>
        /\ \A line \in LinesOfLongParagraphs(content) :
              StrLen(line) > MaxMessageLen
                  => \E i \in DOMAIN messages : messages[i] = Truncation(line)
        /\ \A i \in DOMAIN messages :
              IsTruncation(messages[i])
                  => \E line \in LinesOfLongParagraphs(content) :
                        /\ StrLen(line) > MaxMessageLen
                        /\ messages[i] = Truncation(line)

\* A line of exactly 2000 characters, the first of its paragraph, has been
\* truncated.
C23_LineOfLimitTruncated ==
    /\ split_pc = "done"
    /\ content = <<X(MaxMessageLen), NL, X(1)>>
    /\ messages = <<Truncation(<<X(MaxMessageLen)>>), <<X(1)>>>>

(***************************************************************************)
(* Codes are terminal, checked under SpecShortener.                        *)
(***************************************************************************)

\* C22: a code, once it maps to a URL, maps to that URL in every later state
\* (get_long_url(c) stays u): no step of a shorten_url call removes the
\* code, maps it to another URL, or changes the code that a URL has.
C22_CodesTerminal ==
    [][ /\ \A c \in DOMAIN url_mappings :
              /\ c \in DOMAIN url_mappings'
              /\ url_mappings'[c] = url_mappings[c]
        /\ \A u \in DOMAIN reverse_mappings :
              /\ u \in DOMAIN reverse_mappings'
              /\ reverse_mappings'[u] = reverse_mappings[u] ]_vars

\* A call that created a code for its URL has returned after another URL
\* had been given its code by a call that returned, and that code still
\* resolves to its URL.
C22_Witness ==
    \E t \in Threads, p \in returned :
        /\ spc[t] = "idle"
        /\ sret[t] # None
        /\ saw_unmapped[t]
        /\ p[1] # long_url[t]
        /\ p[2] # sret[t]
        /\ get_long_url(p[2]) = p[1]
        /\ get_long_url(sret[t]) = long_url[t]
        /\ reverse_mappings[p[1]] = p[2]

(***************************************************************************)
(* Retries and pacing of the delivery loop, checked under Spec.            *)
(***************************************************************************)

\* A step that calls requests.post.
IsPost == Len(posts') = Len(posts) + 1

\* C21: when a send_to_discord call for an entry of several chunks had a
\* chunk accepted and a later chunk failed, the call returns False (the
\* entry is failed as a whole), and no later attempt for the entry in the
\* cycle posts again a chunk that was accepted.
C21_PartialNotResent ==
    [][ /\ (pc' = "returned" /\ AcceptedThenFailed(posts') # {})
              => ~send_result'
        /\ IsPost => part \notin accepted_before ]_vars

\* A retry is about to post chunk 1 again, which an earlier attempt for the
\* entry had delivered before chunk 2 failed.
C21_Resend ==
    /\ pc = "post"
    /\ part = 1
    /\ calls > 1
    /\ 1 \in accepted_before

\* C25: between two consecutive posts to the webhook in one cycle (chunks of
\* one attempt, attempts of one entry, or the last post for one entry and
\* the first for the next), the poller sleeps at least one second.
C25_Pacing ==
    [][(IsPost /\ posted # {}) => pause >= 1]_vars


(***************************************************************************)
(* Media extraction, checked under SpecMedia.                              *)
(***************************************************************************)

\* The src and poster values of one tag, in the order they are written: an
\* image has its src, a video its src and its poster.
RECURSIVE MediaAttrs(_, _)
MediaAttrs(name, attrs) ==
    IF attrs = <<>> THEN <<>>
    ELSE LET a == Head(attrs)
             wanted == \/ a[1] = "src"
                       \/ (name = "video" /\ a[1] = "poster")
         IN (IF wanted THEN <<a[2]>> ELSE <<>>) \o MediaAttrs(name, Tail(attrs))

\* The media URLs of an HTML text in the order they occur in it.
RECURSIVE DocumentOrder(_)
DocumentOrder(html) ==
    IF html = <<>> THEN <<>>
    ELSE MediaAttrs(Head(html).tag, Head(html).attrs)
         \o DocumentOrder(Tail(html))

\* C26: media extraction preserves document order. For every sequence of
\* image and video tags, _extract_media_urls returns the src and poster
\* URLs in the order they occur in the document, duplicates kept.
C26_DocumentOrder ==
    media_pc = "done" => extracted_urls = DocumentOrder(html_content)

\* The example of the claim: an image, then a video with src and poster.
C26_Example ==
    /\ media_pc = "done"
    /\ html_content = << Tag("img", << <<"src", "a.png">> >>),
                         Tag("video", << <<"src", "b.mp4">>,
                                         <<"poster", "c.jpg">> >>) >>
    /\ extracted_urls = <<"a.png", "b.mp4", "c.jpg">>

=============================================================================
